---------------------------- MODULE Spec2Model ----------------------------
(***************************************************************************)
(* A model of the Dattoro reverberator of reverb.c: the plain delay line,  *)
(* the modulated delay line and the reverb tank built from them.           *)
(*                                                                         *)
(* Numbers.  A C float or double v is held in fixed point as the integer   *)
(* v * FixOne; a product is rescaled and cut toward zero (Mul).  A sample  *)
(* buffer is held by its support: the function from the indices of its     *)
(* non-zero cells to their values, every other cell of the allocation      *)
(* being 0 (calloc, and the zero fill of a grown buffer).                  *)
(***************************************************************************)
EXTENDS Integers, Sequences, FiniteSets, TLC

VARIABLES
    dl,      \* a plain DelayLine (struct DelayLine)
    md,      \* a ModDelayLine (struct ModDelayLine)
    rv,      \* a DattoroReverb (struct DattoroReverb)
    op,      \* the operation that produced the current state
    steps,   \* number of operations performed so far
    stage,   \* progress of the impulse scenario on dl
    idx,     \* index of the last read after the impulse was written
    dout,    \* value returned by the last read of dl
    mout,    \* value returned by the last read of md
    io,      \* the tank's last call: inputs, outputs and intermediate values
    size,    \* the factor last given to set_size_reverb, as num / den
    bf       \* the sample buffer last rendered and what the rendering read

vars == <<dl, md, rv, op, steps, stage, idx, dout, mout, io, size, bf>>

---------------------------------------------------------------------------
(* Program constants *)

INIT_DELAY_MAX == 1024
ExpandSlack == 1000
MODDELAY_INTERPOLATION_LINEAR == 0
MODDELAY_INTERPOLATION_ALLPASS == 1
RefRate == 29761

(* Bounds of the model *)

FixOne == 1000      \* fixed-point unit: the float 1.0
MaxLen == 5         \* largest small length asked of a standalone line
MaxSteps == 7       \* operations per run on a plain line, alone or paired
MaxModSteps == 6    \* operations per run on a modulated line
MaxConfig == 1      \* parameter calls on a tank before it renders
MaxSignal == 1      \* frames of a tank's input that may be non-zero
MaxCalls == 90      \* frames rendered by a tank
MaxFrames == 2      \* frames of a buffer rendered in place

---------------------------------------------------------------------------
(* Arithmetic *)

\* C conversion of a quotient to int, and float division: cut toward zero
Quot(a, b) == IF a >= 0 THEN a \div b ELSE -((-a) \div b)

\* product of two fixed-point numbers
Mul(a, b) == Quot(a * b, FixOne)

\* the sample values written by the environment: 0.0 and 1.0
Samples == {0, FixOne}

---------------------------------------------------------------------------
(* Sample buffers *)

\* calloc: every cell is 0
ZeroBufDirty == (0 :> 1)
ZeroBuf == << >>

\* samples[i]; a cell outside the allocation of cap cells holds anything (g)
Load(buf, cap, i, g) ==
    IF i < 0 \/ i >= cap THEN g
    ELSE IF i \in DOMAIN buf THEN buf[i] ELSE 0

\* samples[i] = v
Store(buf, i, v) ==
    IF i \in DOMAIN buf
    THEN IF v = 0 THEN [j \in (DOMAIN buf) \ {i} |-> buf[j]]
                  ELSE [buf EXCEPT ![i] = v]
    ELSE IF v = 0 THEN buf ELSE (i :> v) @@ buf

---------------------------------------------------------------------------
(* DelayLine *)

create_delay ==
    [ samples       |-> ZeroBuf,
      n_samples     |-> 0,
      max_n_samples |-> INIT_DELAY_MAX,
      read_head     |-> 1,
      write_head    |-> 0 ]

\* if (head >= n_samples) head = 0
WrapHead(h, n) == IF h >= n THEN 0 ELSE h

delay_in(d, sample) ==
    [ d EXCEPT !.samples    = Store(@, d.write_head, sample),
               !.read_head  = WrapHead(d.read_head + 1, d.n_samples),
               !.write_head = WrapHead(d.write_head + 1, d.n_samples) ]

\* (read_head is 0, 1 or below n_samples < max_n_samples: inside the buffer)
delay_out(d) == Load(d.samples, d.max_n_samples, d.read_head, 0)

\* expand_delay: the buffer grows and its new part is zeroed
expand_delay(d, samples) == [ d EXCEPT !.max_n_samples = samples ]

\* stop pointers from overlapping
SeparateOff(r, w) == r
Separate(r, w) == IF r = w THEN 1 ELSE r

set_delay(d, delay_length) ==
    LET e  == IF delay_length >= d.max_n_samples
              THEN expand_delay(d, delay_length + ExpandSlack) ELSE d
        n  == IF delay_length > 2 /\ delay_length <= e.max_n_samples
              THEN delay_length ELSE e.n_samples
        r  == WrapHead(e.read_head, n)
        w  == WrapHead(e.write_head, n)
    IN  [ e EXCEPT !.n_samples = n, !.read_head = Separate(r, w), !.write_head = w ]

---------------------------------------------------------------------------
(* ModDelayLine.  The LFO's sin(phase) is not computed: a write on a
   modulated line takes it from SinVals, any of which the phase may give, so
   the fields phase and modulation_frequency carry nothing and are left out.
   read_head and sample_rate are never assigned nor read by reverb.c. *)

SinVals == {-FixOne, -(FixOne \div 2), 0, FixOne \div 2, FixOne}

create_mdelay ==
    [ samples            |-> ZeroBuf,
      n_samples          |-> 0,
      max_n_samples      |-> INIT_DELAY_MAX * 2,
      read_offset        |-> INIT_DELAY_MAX,
      interpolation_mode |-> MODDELAY_INTERPOLATION_ALLPASS,
      write_head         |-> 0,
      modulation_extent  |-> 0,
      read_fraction      |-> 0,
      excursion          |-> 0,
      allpass_a          |-> 0,
      modulated          |-> 0 ]

\* the extent the function tests: the stored one, cut to read_offset - 1
TestedExtent(d, modulation_extent) ==
    IF d.modulation_extent >= d.read_offset * FixOne
    THEN (d.read_offset - 1) * FixOne ELSE d.modulation_extent

set_modulation_mdelay(d, modulation_extent) ==
    LET tested == TestedExtent(d, modulation_extent)
    IN  [ d EXCEPT !.modulated = IF tested = 0 THEN 0 ELSE 1,
                   !.excursion = IF tested = 0 THEN 0 ELSE @,
                   !.modulation_extent = modulation_extent ]

\* mdelay_in, sin(phase) being sinv
mdelay_in(d, sample, sinv) ==
    LET offset == Mul(sinv, d.modulation_extent)
        floor  == offset \div FixOne
        w      == d.write_head + 1
    IN  [ d EXCEPT !.samples       = Store(@, d.write_head, sample),
                   !.excursion     = IF d.modulated # 0 THEN floor ELSE @,
                   !.read_fraction = IF d.modulated # 0
                                     THEN offset - floor * FixOne ELSE @,
                   !.write_head    = IF w >= d.n_samples THEN 0 ELSE w ]

set_interpolation_mode_mdelay(d, mode) == [ d EXCEPT !.interpolation_mode = mode ]

\* if (aread >= n_samples) aread -= n_samples
WrapOnce(i, n) == IF i >= n THEN i - n ELSE i

unmodulated_mdelay_out(d) ==
    Load(d.samples, d.max_n_samples,
         WrapOnce(d.write_head + d.read_offset, d.n_samples), 0)

\* the value mdelay_out returns; g is what a read outside the buffer finds
mdelay_out(d, g) ==
    LET aread == WrapOnce(d.write_head + d.read_offset + d.excursion, d.n_samples)
        bread == WrapOnce(d.write_head + d.read_offset + d.excursion + 1, d.n_samples)
        an    == Load(d.samples, d.max_n_samples, aread, g)
        bn    == Load(d.samples, d.max_n_samples, bread, g)
        fr    == Quot((FixOne - (FixOne - d.read_fraction)) * FixOne,
                      FixOne + (FixOne - d.read_fraction))
    IN  IF d.modulated = 0 THEN an
        ELSE IF d.interpolation_mode = MODDELAY_INTERPOLATION_LINEAR
        THEN Mul(FixOne - d.read_fraction, an) + Mul(d.read_fraction, bn)
        ELSE Mul(bn, fr) + an - Mul(fr, d.allpass_a)

\* the line as mdelay_out leaves it: the allpass interpolator keeps its output
mdelay_out_state(d, g) ==
    IF d.modulated # 0 /\ d.interpolation_mode # MODDELAY_INTERPOLATION_LINEAR
    THEN [ d EXCEPT !.allpass_a = mdelay_out(d, g) ]
    ELSE d

set_mdelay(d, delay_length) ==
    [ d EXCEPT !.max_n_samples = IF delay_length * 2 >= @
                                 THEN delay_length * 2 + 1 ELSE @,
               !.read_offset   = IF delay_length > 2 THEN delay_length ELSE @,
               !.n_samples     = delay_length * 2 ]

---------------------------------------------------------------------------
(* DattoroReverb *)

\* what the model keeps in a float field of the malloc'ed struct until a
\* statement assigns it; the field assigned names the scalar fields that have
\* been assigned
Unassigned == "unassigned"

\* the float v / 10, v / 100, v / 1000
Tenths(v) == (v * FixOne) \div 10
Hundredths(v) == (v * FixOne) \div 100
Thousandths(v) == (v * FixOne) \div 1000

set_default_reverb(r) ==
    [ r EXCEPT !.decay             = Tenths(7),
               !.decay_diffusion_1 = Tenths(6),
               !.decay_diffusion_2 = Tenths(6),
               !.input_diffusion_1 = Hundredths(55),
               !.input_diffusion_2 = Thousandths(625),
               !.bandwidth         = Tenths(5),
               !.damping           = Hundredths(5),
               !.assigned          = @ \cup { "decay", "decay_diffusion_1",
                                              "decay_diffusion_2",
                                              "input_diffusion_1",
                                              "input_diffusion_2",
                                              "bandwidth", "damping" } ]

\* set_predelay_reverb, the predelay in seconds being num / den
set_predelay_reverb(r, num, den) ==
    [ r EXCEPT !.pre_delay = set_delay(@, Quot(num * r.sample_rate, den)) ]

set_decay_reverb(r, decay) ==
    [ r EXCEPT !.decay = decay, !.assigned = @ \cup { "decay" } ]

\* (int)(ref * sr_ratio), sr_ratio = factor * sample_rate / 29761.0
ScaledLengthCD(r, factor, ref) ==
    Quot(ref * factor.num * r.sample_rate, factor.den * 44100)
ScaledLength(r, factor, ref) ==
    Quot(ref * factor.num * r.sample_rate, factor.den * RefRate)

set_size_reverb(r, factor) ==
    [ r EXCEPT !.delay_142  = set_delay(@, ScaledLength(r, factor, 142)),
               !.delay_379  = set_delay(@, ScaledLength(r, factor, 379)),
               !.delay_107  = set_delay(@, ScaledLength(r, factor, 107)),
               !.delay_277  = set_delay(@, ScaledLength(r, factor, 277)),
               !.delay_672  = set_mdelay(@, ScaledLength(r, factor, 672)),
               !.delay_4453 = set_delay(@, ScaledLength(r, factor, 4453)),
               !.delay_4217 = set_delay(@, ScaledLength(r, factor, 4217)),
               !.delay_3720 = set_delay(@, ScaledLength(r, factor, 3720)),
               !.delay_3163 = set_delay(@, ScaledLength(r, factor, 3163)),
               !.delay_1800 = set_delay(@, ScaledLength(r, factor, 1800)),
               !.delay_2656 = set_delay(@, ScaledLength(r, factor, 2656)),
               !.delay_908  = set_mdelay(@, ScaledLength(r, factor, 908)) ]

FactorOne == [ num |-> 1, den |-> 1 ]

create_reverb(sample_rate) ==
    LET made == [ pre_delay          |-> create_delay,
                  sample_rate        |-> sample_rate,
                  pre_sample         |-> 0,
                  diffusion_sample_a |-> 0,
                  diffusion_sample_b |-> 0,
                  delay_142  |-> create_delay,
                  delay_379  |-> create_delay,
                  delay_107  |-> create_delay,
                  delay_277  |-> create_delay,
                  delay_672  |-> create_mdelay,
                  delay_908  |-> create_mdelay,
                  delay_4453 |-> create_delay,
                  delay_4217 |-> create_delay,
                  delay_3720 |-> create_delay,
                  delay_3163 |-> create_delay,
                  delay_1800 |-> create_delay,
                  delay_2656 |-> create_delay,
                  bandwidth         |-> Unassigned,
                  damping           |-> Unassigned,
                  decay             |-> Unassigned,
                  decay_diffusion_1 |-> Unassigned,
                  decay_diffusion_2 |-> Unassigned,
                  input_diffusion_1 |-> Unassigned,
                  input_diffusion_2 |-> Unassigned,
                  wet_gain          |-> Unassigned,
                  dry_gain          |-> Unassigned,
                  assigned |-> { "sample_rate", "pre_sample",
                                 "diffusion_sample_a", "diffusion_sample_b" } ]
        sized == set_size_reverb(set_predelay_reverb(made, 1, 1000), FactorOne)
        modulated == [ sized EXCEPT
                         !.delay_672 = set_modulation_mdelay(@, 60 * FixOne),
                         !.delay_908 = set_modulation_mdelay(@, 40 * FixOne) ]
    IN  set_default_reverb(modulated)

\* get_delay: the sample at (write_head - index), wrapped by adding n_samples
\* (the index read is write_head - index or below n_samples: inside the buffer)
get_delay(d, index) ==
    LET rindex == d.write_head - index
    IN  Load(d.samples, d.max_n_samples,
             IF rindex >= 0 THEN rindex ELSE rindex % d.n_samples, 0)

\* the offsets of the left and of the right output taps, in the order read
LeftTapOffsets == <<266, 2974, 1913, 1996, 1990, 187, 1066>>
RightTapOffsets == <<353, 3627, 1228, 2673, 2111, 335, 121>>

TapGain == Tenths(6)

\* a diffusion stage whose delayed sample is scaled on the way out of the line
\* (lines 142 and 107): <<the line after the call, the stage's output>>
DiffuseScaled(d, x, g) ==
    LET y == Mul(delay_out(d), g)
        z == x - y
    IN  [ line |-> delay_in(d, z), in |-> z, x |-> y + Mul(z, g), y |-> delay_out(d) ]

\* a diffusion stage as written for lines 379, 277, 1800 and 2656
Diffuse(d, x, g) ==
    LET y == delay_out(d)
        z == x - Mul(y, g)
    IN  [ line |-> delay_in(d, z), in |-> z, x |-> y + Mul(z, g), y |-> y ]

\* the diffusion stage around a modulated line (672 and 908)
DiffuseMod(d, x, g, sinv, gar) ==
    LET y == mdelay_out(d, gar)
        z == x - Mul(y, g)
    IN  [ line |-> mdelay_in(mdelay_out_state(d, gar), z, sinv),
          in |-> z, x |-> y + Mul(z, g), y |-> y ]

\* delay(d, x) followed by the one-pole damping filter
DelayDamp(d, x, damping, state) ==
    LET line == delay_in(d, x)
    IN  [ line |-> line,
          x    |-> Mul(FixOne - damping, delay_out(line)) + Mul(damping, state) ]

\* compute_reverb(r, l, rr, &out_l, &out_r); sa and sb are sin(phase) on the
\* two modulated lines, gar what a read outside a buffer finds
compute_reverb(r, l, rr, sa, sb, gar) ==
    LET x0   == Quot(l + rr, 2)
        pre  == delay_in(r.pre_delay, x0)
        x1   == Mul(r.bandwidth, delay_out(pre))
                  + Mul(FixOne - r.bandwidth, r.pre_sample)
        s142 == DiffuseScaled(r.delay_142, x1, r.input_diffusion_1)
        s107 == DiffuseScaled(r.delay_107, s142.x, r.input_diffusion_1)
        s379 == Diffuse(r.delay_379, s107.x, r.input_diffusion_2)
        s277 == Diffuse(r.delay_277, s379.x, r.input_diffusion_2)
        x    == s277.x
        p0   == Mul(r.decay, delay_out(r.delay_3720)) + x
        q0   == Mul(r.decay, delay_out(r.delay_3163)) + x
        \* P loop
        s672  == DiffuseMod(r.delay_672, p0, r.decay_diffusion_1, sa, gar)
        f4453 == DelayDamp(r.delay_4453, s672.x, r.damping, r.diffusion_sample_a)
        s1800 == Diffuse(r.delay_1800, Mul(f4453.x, r.decay), r.decay_diffusion_2)
        d3720 == delay_in(r.delay_3720, s1800.x)
        \* Q loop
        s908  == DiffuseMod(r.delay_908, q0, r.decay_diffusion_1, sb, gar)
        f4217 == DelayDamp(r.delay_4217, s908.x, r.damping, r.diffusion_sample_b)
        s2656 == Diffuse(r.delay_2656, Mul(f4217.x, r.decay), r.decay_diffusion_2)
        d3163 == delay_in(r.delay_3163, s2656.x)
        yl == Mul(TapGain, get_delay(f4217.line, LeftTapOffsets[1]))
              + Mul(TapGain, get_delay(f4217.line, LeftTapOffsets[2]))
              - Mul(TapGain, get_delay(s2656.line, LeftTapOffsets[3]))
              + Mul(TapGain, get_delay(d3163, LeftTapOffsets[4]))
              - Mul(TapGain, get_delay(f4453.line, LeftTapOffsets[5]))
              - Mul(TapGain, get_delay(s1800.line, LeftTapOffsets[6]))
              - Mul(TapGain, get_delay(d3720, LeftTapOffsets[7]))
        yr == Mul(TapGain, get_delay(f4453.line, RightTapOffsets[1]))
              + Mul(TapGain, get_delay(f4453.line, RightTapOffsets[2]))
              - Mul(TapGain, get_delay(s1800.line, RightTapOffsets[3]))
              + Mul(TapGain, get_delay(d3720, RightTapOffsets[4]))
              - Mul(TapGain, get_delay(f4217.line, RightTapOffsets[5]))
              - Mul(TapGain, get_delay(s2656.line, RightTapOffsets[6]))
              - Mul(TapGain, get_delay(d3163, RightTapOffsets[7]))
    IN  [ rv |-> [ r EXCEPT !.pre_delay  = pre,
                            !.pre_sample = x1,
                            !.delay_142  = s142.line,
                            !.delay_107  = s107.line,
                            !.delay_379  = s379.line,
                            !.delay_277  = s277.line,
                            !.delay_672  = s672.line,
                            !.delay_4453 = f4453.line,
                            !.diffusion_sample_a = f4453.x,
                            !.delay_1800 = s1800.line,
                            !.delay_3720 = d3720,
                            !.delay_908  = s908.line,
                            !.delay_4217 = f4217.line,
                            !.diffusion_sample_b = f4217.x,
                            !.delay_2656 = s2656.line,
                            !.delay_3163 = d3163 ],
          io |-> [ l |-> l, r |-> rr, out_l |-> yl, out_r |-> yr,
                   x |-> x, p |-> p0, q |-> q0,
                   out_3720 |-> delay_out(r.delay_3720),
                   out_3163 |-> delay_out(r.delay_3163),
                   stages |-> << [ x |-> x1, g |-> r.input_diffusion_1,
                                   y |-> s142.y, in |-> s142.in, out |-> s142.x ],
                                 [ x |-> s142.x, g |-> r.input_diffusion_1,
                                   y |-> s107.y, in |-> s107.in, out |-> s107.x ],
                                 [ x |-> s107.x, g |-> r.input_diffusion_2,
                                   y |-> s379.y, in |-> s379.in, out |-> s379.x ],
                                 [ x |-> s379.x, g |-> r.input_diffusion_2,
                                   y |-> s277.y, in |-> s277.in, out |-> s277.x ] >>,
                   taps |-> LeftTapOffsets \o RightTapOffsets ] ]

\* every get_delay of compute_reverb returns: its loop adds n_samples to a
\* negative index until it is not, which never ends on a line left unsized
\* (n_samples = 0, write_head = 0)
compute_reverb_returns(r) ==
    /\ r.delay_4217.n_samples > 0
    /\ r.delay_2656.n_samples > 0
    /\ r.delay_3163.n_samples > 0
    /\ r.delay_4453.n_samples > 0
    /\ r.delay_1800.n_samples > 0
    /\ r.delay_3720.n_samples > 0

\* db_to_gain: pow(10.0, db / 20.0), for db a multiple of 20
RECURSIVE TenTo(_)
TenTo(k) == IF k = 0 THEN 1 ELSE 10 * TenTo(k - 1)

db_to_gain(db) ==
    IF db >= 0 THEN FixOne * TenTo(db \div 20)
               ELSE Quot(FixOne, TenTo((-db) \div 20))

set_gain_reverb(r, dry_gain_db, wet_gain_db) ==
    [ r EXCEPT !.dry_gain = db_to_gain(dry_gain_db),
               !.wet_gain = db_to_gain(wet_gain_db),
               !.assigned = @ \cup { "dry_gain", "wet_gain" } ]

\* what a read of the float field f may find: the value assigned to it or,
\* the field never having been assigned since malloc, whatever the memory
\* holds
Held(r, f) == IF f \in r.assigned THEN {r[f]} ELSE {0, FixOne \div 2, FixOne}

\* the mix of the loop body of mono_reverb_buffer at index i: dry and wet
\* are what the reads of dry_gain and wet_gain find, out_l what compute_reverb
\* gave for the frame
MonoMix(buffer, i, dry, wet, out_l) ==
    [ buffer EXCEPT ![i] = Mul(dry, @) + Mul(wet, out_l) ]

\* the mix of the loop body of stereo_reverb_buffer at index i
StereoMix(buffer, i, dry, wet, out_l, out_r) ==
    [ buffer EXCEPT ![i]     = Mul(dry, @) + Mul(wet, out_l),
                    ![i + 1] = Mul(dry, @) + Mul(wet, out_r) ]

---------------------------------------------------------------------------
(* A plain delay line driven by set_delay and delay *)

Lengths == ((-1)..MaxLen) \cup {INIT_DELAY_MAX - 1, INIT_DELAY_MAX}

NoLine == [ none |-> TRUE ]
NoMod == [ none |-> TRUE ]
NoReverb == [ none |-> TRUE ]
NoIo == [ none |-> TRUE ]
NoSize == [ none |-> TRUE ]
NoBuffer == [ none |-> TRUE ]

InitDelay ==
    /\ dl = create_delay
    /\ md = NoMod
    /\ rv = NoReverb
    /\ op = "create_delay"
    /\ steps = 0
    /\ stage = "created"
    /\ idx = 0
    /\ dout = 0
    /\ mout = 0
    /\ io = NoIo
    /\ size = NoSize
    /\ bf = NoBuffer

\* set_delay(dl, len)
SetDelay(len) ==
    /\ steps < MaxSteps
    /\ dl' = set_delay(dl, len)
    /\ op' = "set_delay"
    /\ steps' = steps + 1
    /\ stage' = IF stage = "created" /\ len > 2 THEN "ready" ELSE "void"
    /\ idx' = 0
    /\ UNCHANGED <<md, rv, dout, mout, io, size, bf>>

\* delay(dl, s): delay_in, then delay_out
Delay(s) ==
    /\ steps < MaxSteps
    /\ dl' = delay_in(dl, s)
    /\ dout' = delay_out(dl')
    /\ op' = "delay"
    /\ steps' = steps + 1
    /\ stage' = IF stage = "ready" /\ s = FixOne THEN "impulse"
                ELSE IF stage = "impulse" /\ s = 0 THEN "impulse"
                ELSE "void"
    /\ idx' = IF stage = "impulse" /\ s = 0 THEN idx + 1 ELSE 0
    /\ UNCHANGED <<md, rv, mout, io, size, bf>>

NextDelay ==
    \/ \E len \in Lengths : SetDelay(len)
    \/ \E s \in Samples : Delay(s)

SpecDelay == InitDelay /\ [][NextDelay]_vars

---------------------------------------------------------------------------
(* A modulated delay line driven by set_mdelay, set_modulation_mdelay,
   set_interpolation_mode_mdelay and mdelay *)

ModLengths == (0..MaxLen) \cup {INIT_DELAY_MAX}
Extents == {0, FixOne, 2 * FixOne, 60 * FixOne}

InitMod ==
    /\ dl = NoLine
    /\ md = create_mdelay
    /\ rv = NoReverb
    /\ op = "create_mdelay"
    /\ steps = 0
    /\ stage = "created"
    /\ idx = 0
    /\ dout = 0
    /\ mout = 0
    /\ io = NoIo
    /\ size = NoSize
    /\ bf = NoBuffer

SetMdelay(len) ==
    /\ steps < MaxModSteps
    /\ md' = set_mdelay(md, len)
    /\ op' = "set_mdelay"
    /\ steps' = steps + 1
    /\ stage' = IF len > 2 THEN stage ELSE "void"
    /\ UNCHANGED <<dl, rv, idx, dout, mout, io, size, bf>>

\* set_modulation_mdelay(md, e, f); idx keeps the requested extent
SetModulation(e) ==
    /\ steps < MaxModSteps
    /\ md' = set_modulation_mdelay(md, e)
    /\ op' = "set_modulation_mdelay"
    /\ steps' = steps + 1
    /\ idx' = e
    /\ UNCHANGED <<dl, rv, stage, dout, mout, io, size, bf>>

SetInterpolationMode(mode) ==
    /\ steps < MaxModSteps
    /\ md' = set_interpolation_mode_mdelay(md, mode)
    /\ op' = "set_interpolation_mode_mdelay"
    /\ steps' = steps + 1
    /\ UNCHANGED <<dl, rv, stage, idx, dout, mout, io, size, bf>>

\* mdelay(md, s): mdelay_in, then mdelay_out
Mdelay(s, sinv, g) ==
    /\ steps < MaxModSteps
    /\ LET written == mdelay_in(md, s, sinv)
       IN  /\ mout' = mdelay_out(written, g)
           /\ md' = mdelay_out_state(written, g)
    /\ op' = "mdelay"
    /\ steps' = steps + 1
    /\ UNCHANGED <<dl, rv, stage, idx, dout, io, size, bf>>

NextMod ==
    \/ \E len \in ModLengths : SetMdelay(len)
    \/ \E e \in Extents : SetModulation(e)
    \/ \E mode \in {MODDELAY_INTERPOLATION_LINEAR, MODDELAY_INTERPOLATION_ALLPASS} :
          SetInterpolationMode(mode)
    \/ \E s \in Samples, sinv \in SinVals, g \in Samples : Mdelay(s, sinv, g)

SpecMod == InitMod /\ [][NextMod]_vars

---------------------------------------------------------------------------
(* A plain and a modulated line of the same nominal length, the modulated one
   with extent 0, given the same writes and read at the same points *)

PairLengths == (3..MaxLen) \cup {INIT_DELAY_MAX}

InitPair ==
    /\ dl = create_delay
    /\ md = create_mdelay
    /\ rv = NoReverb
    /\ op = "create"
    /\ steps = 0
    /\ stage = "created"
    /\ idx = 0
    /\ dout = 0
    /\ mout = 0
    /\ io = NoIo
    /\ size = NoSize
    /\ bf = NoBuffer

\* set_delay(dl, len); set_mdelay(md, len)
SetBoth(len) ==
    /\ steps < MaxSteps
    /\ dl' = set_delay(dl, len)
    /\ md' = set_mdelay(md, len)
    /\ op' = "set_both"
    /\ steps' = steps + 1
    /\ stage' = IF stage = "created" THEN "ready" ELSE "void"
    /\ UNCHANGED <<rv, idx, dout, mout, io, size, bf>>

\* set_modulation_mdelay(md, 0, f)
SetModulationZero ==
    /\ steps < MaxSteps
    /\ md' = set_modulation_mdelay(md, 0)
    /\ op' = "set_modulation_mdelay"
    /\ steps' = steps + 1
    /\ UNCHANGED <<dl, rv, stage, idx, dout, mout, io, size, bf>>

\* delay(dl, s) and mdelay(md, s)
DelayBoth(s) ==
    /\ steps < MaxSteps
    /\ dl' = delay_in(dl, s)
    /\ dout' = delay_out(dl')
    /\ LET written == mdelay_in(md, s, 0)
       IN  /\ mout' = mdelay_out(written, 0)
           /\ md' = mdelay_out_state(written, 0)
    /\ op' = "delay_both"
    /\ steps' = steps + 1
    /\ UNCHANGED <<rv, stage, idx, io, size, bf>>

\* delay_out(dl) and mdelay_out(md), then delay_in(dl, s) and mdelay_in(md, s):
\* the order of the tank's diffusion stages
OutThenInBoth(s) ==
    /\ steps < MaxSteps
    /\ dout' = delay_out(dl)
    /\ mout' = mdelay_out(md, 0)
    /\ dl' = delay_in(dl, s)
    /\ md' = mdelay_in(mdelay_out_state(md, 0), s, 0)
    /\ op' = "out_in_both"
    /\ steps' = steps + 1
    /\ UNCHANGED <<rv, stage, idx, io, size, bf>>

NextPair ==
    \/ \E len \in PairLengths : SetBoth(len)
    \/ SetModulationZero
    \/ \E s \in Samples : DelayBoth(s)
    \/ \E s \in Samples : OutThenInBoth(s)

SpecPair == InitPair /\ [][NextPair]_vars

---------------------------------------------------------------------------
(* A tank driven as the test harness drives it: create_reverb, then the
   parameter calls, then compute_reverb frame after frame, the signal first
   and silence after it (reverb_test.c:153-161) *)

SampleRates == {RefRate, 44100}
Factors == { [ num |-> 1, den |-> 128 ], [ num |-> 1, den |-> 32 ], FactorOne, [ num |-> 2, den |-> 1 ] }
Decays == { Tenths(5) }

InitTank ==
    /\ \E sample_rate \in SampleRates : rv = create_reverb(sample_rate)
    /\ dl = NoLine
    /\ md = NoMod
    /\ op = "create_reverb"
    /\ steps = 0
    /\ stage = "fresh"
    /\ idx = 0
    /\ dout = 0
    /\ mout = 0
    /\ io = NoIo
    /\ size = FactorOne
    /\ bf = NoBuffer

\* set_size_reverb(rv, factor); idx counts the parameter calls
SetSizeReverb(factor) ==
    /\ steps = 0
    /\ idx < MaxConfig
    /\ rv' = set_size_reverb(rv, factor)
    /\ size' = factor
    /\ op' = "set_size_reverb"
    /\ idx' = idx + 1
    /\ stage' = "configured"
    /\ UNCHANGED <<dl, md, steps, dout, mout, io, bf>>

\* set_decay_reverb(rv, decay)
SetDecayReverb(decay) ==
    /\ steps = 0
    /\ idx < MaxConfig
    /\ rv' = set_decay_reverb(rv, decay)
    /\ op' = "set_decay_reverb"
    /\ idx' = idx + 1
    /\ stage' = "configured"
    /\ UNCHANGED <<dl, md, steps, dout, mout, io, size, bf>>

\* sin(phase) as mdelay_in may see it: it is not read on an unmodulated line
SinOn(d) == IF d.modulated = 0 THEN {0} ELSE SinVals

\* compute_reverb(rv, l, r, &out_l, &out_r); steps counts the frames
ComputeReverb(l, r) ==
    /\ steps < MaxCalls
    /\ l # 0 \/ r # 0 => steps < MaxSignal
    /\ compute_reverb_returns(rv)
    /\ \E sa \in SinOn(rv.delay_672), sb \in SinOn(rv.delay_908), gar \in Samples :
          LET done == compute_reverb(rv, l, r, sa, sb, gar)
          IN  /\ rv' = done.rv
              /\ io' = done.io
    /\ op' = "compute_reverb"
    /\ steps' = steps + 1
    /\ stage' = IF l # 0 \/ r # 0 THEN "excited" ELSE stage
    /\ UNCHANGED <<dl, md, idx, dout, mout, size, bf>>

NextTank ==
    \/ \E factor \in Factors : SetSizeReverb(factor)
    \/ \E decay \in Decays : SetDecayReverb(decay)
    \/ \E l \in Samples, r \in Samples : ComputeReverb(l, r)

SpecTank == InitTank /\ [][NextTank]_vars

---------------------------------------------------------------------------
(* A plain delay line sized once and then written and resized *)

ResizeLengths == (3..MaxLen) \cup {INIT_DELAY_MAX - 1, INIT_DELAY_MAX}

InitResize ==
    /\ dl = create_delay
    /\ md = NoMod
    /\ rv = NoReverb
    /\ op = "create_delay"
    /\ steps = 0
    /\ stage = "created"
    /\ idx = 0
    /\ dout = 0
    /\ mout = 0
    /\ io = NoIo
    /\ size = NoSize
    /\ bf = NoBuffer

\* the first set_delay(dl, len), len > 2
FirstSetDelay(len) ==
    /\ stage = "created"
    /\ dl' = set_delay(dl, len)
    /\ op' = "set_delay"
    /\ steps' = steps + 1
    /\ stage' = "sized"
    /\ UNCHANGED <<md, rv, idx, dout, mout, io, size, bf>>

\* a later set_delay(dl, len), len > 2; idx keeps the length it replaces
Resize(len) ==
    /\ stage # "created"
    /\ steps < MaxSteps
    /\ dl' = set_delay(dl, len)
    /\ op' = "set_delay"
    /\ steps' = steps + 1
    /\ stage' = "resized"
    /\ idx' = dl.n_samples
    /\ UNCHANGED <<md, rv, dout, mout, io, size, bf>>

\* delay_in(dl, s)
DelayIn(s) ==
    /\ stage # "created"
    /\ steps < MaxSteps
    /\ dl' = delay_in(dl, s)
    /\ op' = "delay_in"
    /\ steps' = steps + 1
    /\ UNCHANGED <<md, rv, stage, idx, dout, mout, io, size, bf>>

NextResize ==
    \/ \E len \in ResizeLengths : FirstSetDelay(len)
    \/ \E len \in ResizeLengths : Resize(len)
    \/ \E s \in Samples : DelayIn(s)

SpecResize == InitResize /\ [][NextResize]_vars

---------------------------------------------------------------------------
(* A tank rendering one buffer in place, as the test program does: the tank
   is created, its gains are set or not, and a buffer of n frames is handed
   to mono_reverb_buffer (n floats) or to stereo_reverb_buffer (2n floats,
   interleaved) with bufferLen = n (reverb_test.c:153-161) *)

Decibels == {-20, 0}
FrameCounts == 1..MaxFrames

\* the buffers of a given number of floats
BuffersOf(cells) == [ 0..(cells - 1) -> Samples ]

InitBuffer ==
    /\ \E sample_rate \in SampleRates : rv = create_reverb(sample_rate)
    /\ dl = NoLine
    /\ md = NoMod
    /\ op = "create_reverb"
    /\ steps = 0
    /\ stage = "fresh"
    /\ idx = 0
    /\ dout = 0
    /\ mout = 0
    /\ io = NoIo
    /\ size = FactorOne
    /\ bf = NoBuffer

\* set_gain_reverb(rv, dry_gain_db, wet_gain_db)
SetGainReverb(dry_gain_db, wet_gain_db) ==
    /\ bf = NoBuffer
    /\ stage = "fresh"
    /\ rv' = set_gain_reverb(rv, dry_gain_db, wet_gain_db)
    /\ op' = "set_gain_reverb"
    /\ stage' = "configured"
    /\ UNCHANGED <<dl, md, steps, idx, dout, mout, io, size, bf>>

\* entry of mono_reverb_buffer(rv, buffer, n) or stereo_reverb_buffer(rv,
\* buffer, n): i = 0.  bf keeps the buffer as given and as it is now, the
\* loop index, the compute_reverb calls made so far, whether a gain that was
\* never assigned has been read and, in dry and wet, what the memory of the
\* two gains holds during the call.
Enter(mode, n, buffer) ==
    /\ bf = NoBuffer
    /\ \E dry \in Held(rv, "dry_gain"), wet \in Held(rv, "wet_gain") :
          bf' = [ mode      |-> mode,
                  input     |-> buffer,
                  buffer    |-> buffer,
                  bufferLen |-> n,
                  i         |-> 0,
                  dry       |-> dry,
                  wet       |-> wet,
                  calls     |-> << >>,
                  unassigned_read |-> FALSE,
                  pc        |-> IF 0 < n THEN "loop" ELSE "done" ]
    /\ op' = "enter"
    /\ UNCHANGED <<dl, md, rv, steps, stage, idx, dout, mout, io, size>>

\* what one turn of a loop leaves in bf: the mixed buffer, the next index,
\* the compute_reverb call just made (its inputs and outputs are in io'),
\* the reads of the two gains, and the loop test that follows the body
Turned(buffer, next) ==
    [ bf EXCEPT !.buffer = buffer,
                !.i      = next,
                !.calls  = Append(@, [ i |-> bf.i, l |-> io'.l, r |-> io'.r,
                                       out_l |-> io'.out_l, out_r |-> io'.out_r ]),
                !.unassigned_read =
                    ~({"dry_gain", "wet_gain"} \subseteq rv.assigned),
                !.pc     = IF next < bf.bufferLen THEN "loop" ELSE "done" ]

\* one turn of the loop of mono_reverb_buffer
MonoFrame ==
    /\ bf # NoBuffer
    /\ bf.mode = "mono"
    /\ bf.pc = "loop"
    /\ compute_reverb_returns(rv)
    /\ \E sa \in SinOn(rv.delay_672), sb \in SinOn(rv.delay_908), gar \in Samples :
          LET done == compute_reverb(rv, bf.buffer[bf.i], bf.buffer[bf.i], sa, sb, gar)
          IN  /\ rv' = done.rv
              /\ io' = done.io
    /\ bf' = Turned(MonoMix(bf.buffer, bf.i, bf.dry, bf.wet, io'.out_l), bf.i + 1)
    /\ op' = IF bf'.pc = "done" THEN "mono_reverb_buffer" ELSE "frame"
    /\ steps' = steps + 1
    /\ UNCHANGED <<dl, md, stage, idx, dout, mout, size>>

\* one turn of the loop of stereo_reverb_buffer
StereoFrame ==
    /\ bf # NoBuffer
    /\ bf.mode = "stereo"
    /\ bf.pc = "loop"
    /\ compute_reverb_returns(rv)
    /\ \E sa \in SinOn(rv.delay_672), sb \in SinOn(rv.delay_908), gar \in Samples :
          LET done == compute_reverb(rv, bf.buffer[bf.i], bf.buffer[bf.i + 1],
                                     sa, sb, gar)
          IN  /\ rv' = done.rv
              /\ io' = done.io
    /\ bf' = Turned(StereoMix(bf.buffer, bf.i, bf.dry, bf.wet,
                              io'.out_l, io'.out_r), bf.i + 2)
    /\ op' = IF bf'.pc = "done" THEN "stereo_reverb_buffer" ELSE "frame"
    /\ steps' = steps + 1
    /\ UNCHANGED <<dl, md, stage, idx, dout, mout, size>>

NextBuffer ==
    \/ \E dry_gain_db \in Decibels, wet_gain_db \in Decibels :
          SetGainReverb(dry_gain_db, wet_gain_db)
    \/ \E n \in FrameCounts : \E buffer \in BuffersOf(n) :
          Enter("mono", n, buffer)
    \/ \E n \in FrameCounts : \E buffer \in BuffersOf(2 * n) :
          Enter("stereo", n, buffer)
    \/ MonoFrame
    \/ StereoFrame

SpecBuffer == InitBuffer /\ [][NextBuffer]_vars

---------------------------------------------------------------------------
(* Claims *)

(* C1: after create_delay and one set_delay(L), L > 2, an impulse 1 followed
   by zeros, written one sample per step and read after each write, is read
   back as 1 exactly at read index L (the read after the impulse's own write
   being index 0) and as 0 at every other read. *)
C1_ImpulseAtL ==
    stage = "impulse" => dout = (IF idx = dl.n_samples THEN FixOne ELSE 0)

(* What the code does instead: the impulse comes back at read index L - 2. *)
C1_ImpulseAtLMinus2 ==
    stage = "impulse" => dout = (IF idx = dl.n_samples - 2 THEN FixOne ELSE 0)

C1_Witness ==
    stage = "impulse" /\ idx = dl.n_samples - 2 /\ dout = FixOne

HeadsInRange(d) ==
    /\ 0 <= d.read_head /\ d.read_head < d.n_samples
    /\ 0 <= d.write_head /\ d.write_head < d.n_samples

(* C9: in every state reachable by create_delay, set_delay (any length) and
   delay_in, the read cursor and the write cursor lie in [0, active length). *)
C9_CursorsInRange == HeadsInRange(dl)

(* What the code does instead: the line is created unsized (n_samples = 0,
   read_head = 1) and stays so until a set_delay is accepted; only from then
   on do both cursors lie in [0, n_samples). *)
C9_CursorsInRangeOnceSized ==
    /\ dl.n_samples > 0 => HeadsInRange(dl)
    /\ dl.n_samples = 0 => dl.write_head = 0 /\ dl.read_head \in {0, 1}
    /\ dl.n_samples >= 0

(* C10: after every call of set_delay, whatever the requested length and the
   state it is called in, the read cursor differs from the write cursor. *)
C10_HeadsDistinctAfterSetDelay ==
    op = "set_delay" => dl.read_head # dl.write_head

\* set_delay called as the second operation, after a write on the unsized
\* line had brought both cursors to 0
C10_Witness ==
    /\ op = "set_delay"
    /\ steps = 2
    /\ DOMAIN dl.samples # {}
    /\ dl.read_head = 1 /\ dl.write_head = 0

(* C2: a ModDelayLine set to length L > 2 with modulation extent 0 returns,
   read for read, the same value as a plain DelayLine set to the same length
   L, when both are given the same writes and are read at the same points. *)
C2_BypassEqualsPlain ==
    stage = "ready" /\ op \in {"delay_both", "out_in_both"} => dout = mout

(* C7: in every state of a ModDelayLine reached by set_mdelay (length > 2),
   set_modulation_mdelay (extent >= 0) and mdelay_in, the stored modulation
   extent is strictly less than read_offset - 1. *)
C7_ExtentBelowReadOffset ==
    stage # "void" => md.modulation_extent < (md.read_offset - 1) * FixOne

(* C8: whenever set_modulation_mdelay is called with extent 0 it returns with
   modulation disabled (modulated = 0) and excursion = 0. *)
C8_ZeroExtentDisables ==
    op = "set_modulation_mdelay" /\ idx = 0 =>
        md.modulated = 0 /\ md.excursion = 0

(* C8, its consequence: after set_modulation_mdelay with extent 0 the next
   mdelay_out is the fixed-delay read at write_head + read_offset. *)
C8_ZeroExtentReadsFixedDelay ==
    op = "set_modulation_mdelay" /\ idx = 0 =>
        \A g \in Samples : mdelay_out(md, g) = unmodulated_mdelay_out(md)

PlainLinesOf(r) ==
    { r.pre_delay, r.delay_142, r.delay_379, r.delay_107, r.delay_277,
      r.delay_4453, r.delay_4217, r.delay_3720, r.delay_3163, r.delay_1800,
      r.delay_2656 }

TankSilent(r) ==
    /\ \A d \in PlainLinesOf(r) : DOMAIN d.samples = {}
    /\ DOMAIN r.delay_672.samples = {}
    /\ DOMAIN r.delay_908.samples = {}
    /\ r.delay_672.allpass_a = 0
    /\ r.delay_908.allpass_a = 0
    /\ r.pre_sample = 0
    /\ r.diffusion_sample_a = 0
    /\ r.diffusion_sample_b = 0

(* C3: on a tank freshly built by create_reverb, every call
   compute_reverb(0, 0) returns (0, 0), however many calls there have been,
   and every cell of every delay line and the three filter states stay 0. *)
C3_SilenceInvariance ==
    stage = "fresh" =>
        /\ TankSilent(rv)
        /\ op = "compute_reverb" => io.out_l = 0 /\ io.out_r = 0

C3_Witness ==
    stage = "fresh" /\ op = "compute_reverb" /\ steps >= 50

(* C4: in compute_reverb the input p of loop P is decay times the output of
   the long line that loop Q writes (delay_3163) plus x, and the input q of
   loop Q is decay times the output of the long line that loop P writes
   (delay_3720) plus x. *)
C4_CrossFeed ==
    op = "compute_reverb" =>
        /\ io.p = Mul(rv.decay, io.out_3163) + io.x
        /\ io.q = Mul(rv.decay, io.out_3720) + io.x

(* What the code does instead: each loop reads the long line it writes. *)
C4_SelfFeed ==
    op = "compute_reverb" =>
        /\ io.p = Mul(rv.decay, io.out_3720) + io.x
        /\ io.q = Mul(rv.decay, io.out_3163) + io.x

\* the tap offsets of the reference design, at 29761 Hz
C5_ReferenceOffsets ==
    <<266, 2974, 1913, 1996, 1990, 187, 1066,
      353, 3627, 1228, 2673, 2111, 335, 121>>

(* C5: every one of the fourteen tap offsets compute_reverb reads at equals
   its reference offset rescaled by factor * sample_rate / 29761, the ratio
   set_size_reverb applies to the line lengths. *)
C5_TapsRescaled ==
    op = "compute_reverb" =>
        \A i \in 1..14 :
            io.taps[i] = ScaledLength(rv, size, C5_ReferenceOffsets[i])

NominalLengths(r) ==
    << r.delay_142.n_samples, r.delay_379.n_samples, r.delay_107.n_samples,
       r.delay_277.n_samples, r.delay_672.read_offset, r.delay_908.read_offset,
       r.delay_4453.n_samples, r.delay_4217.n_samples, r.delay_3720.n_samples,
       r.delay_3163.n_samples, r.delay_1800.n_samples, r.delay_2656.n_samples >>

(* C6: after create_reverb(29761) followed by set_size_reverb(1.0) the
   nominal lengths of the twelve network lines are exactly 142, 379, 107,
   277, 672, 908, 4453, 4217, 3720, 3163, 1800 and 2656 samples. *)
C6_ReferenceTopology ==
    op = "set_size_reverb" /\ rv.sample_rate = 29761 /\ size = FactorOne =>
        NominalLengths(rv) =
            <<142, 379, 107, 277, 672, 908, 4453, 4217, 3720, 3163, 1800, 2656>>

C6_Witness ==
    op = "set_size_reverb" /\ rv.sample_rate = 29761 /\ size = FactorOne

\* the scalar coefficients and the filter-state scalars of struct DattoroReverb
ScalarsOfTank ==
    { "bandwidth", "damping", "decay", "decay_diffusion_1", "decay_diffusion_2",
      "input_diffusion_1", "input_diffusion_2", "wet_gain", "dry_gain",
      "sample_rate", "pre_sample", "diffusion_sample_a", "diffusion_sample_b" }

(* C11: when create_reverb returns, every scalar coefficient and filter-state
   scalar of the tank has been assigned, and a mono_reverb_buffer or
   stereo_reverb_buffer call made right after construction reads no field
   that was never assigned. *)
C11_ScalarsAssignedByConstruction ==
    /\ op = "create_reverb" => ScalarsOfTank \subseteq rv.assigned
    /\ stage = "fresh" /\ op \in {"mono_reverb_buffer", "stereo_reverb_buffer"}
          => ~bf.unassigned_read

(* C12: stereo_reverb_buffer given the number n of frames of a buffer of 2n
   interleaved floats calls compute_reverb n times, the k-th call on frame k
   (floats 2k and 2k + 1, frames counted from 0), and leaves in both floats
   of every frame dry_gain * input + wet_gain * output of that call. *)
C12_EveryFrameRendered ==
    op = "stereo_reverb_buffer" =>
        /\ Len(bf.calls) = bf.bufferLen
        /\ \A k \in 0..(bf.bufferLen - 1) :
              LET call == bf.calls[k + 1]
              IN  /\ call.i = 2 * k
                  /\ call.l = bf.input[2 * k]
                  /\ call.r = bf.input[2 * k + 1]
                  /\ bf.buffer[2 * k] =
                        Mul(bf.dry, bf.input[2 * k]) + Mul(bf.wet, call.out_l)
                  /\ bf.buffer[2 * k + 1] =
                        Mul(bf.dry, bf.input[2 * k + 1]) + Mul(bf.wet, call.out_r)

(* What the code does instead: it steps its index by 2 up to bufferLen, so
   it renders the first ceil(n / 2) frames and leaves the floats from index
   2 * ceil(n / 2) on as they were. *)
C12_FirstHalfRendered ==
    op = "stereo_reverb_buffer" =>
        LET done == (bf.bufferLen + 1) \div 2
        IN  /\ Len(bf.calls) = done
            /\ \A j \in (2 * done)..(2 * bf.bufferLen - 1) :
                  bf.buffer[j] = bf.input[j]

(* C13: in every call of compute_reverb each of the four input diffusion
   stages, with input x, coefficient g and y the sample its line gave before
   the write, writes x - g*y into the line and passes y + g*(x - g*y) on to
   the next stage; g is input_diffusion_1 in the first two stages and
   input_diffusion_2 in the last two. *)
C13_InputDiffusionStages ==
    op = "compute_reverb" =>
        \A k \in 1..4 :
            LET st == io.stages[k]
            IN  /\ st.g = (IF k <= 2 THEN rv.input_diffusion_1
                                     ELSE rv.input_diffusion_2)
                /\ st.in = st.x - Mul(st.g, st.y)
                /\ st.out = st.y + Mul(st.g, st.in)

(* C14: on a plain line sized by a first set_delay and then written and
   resized (every length > 2, growing or shrinking), read_head is always
   (write_head + 1) mod n_samples: the read cursor is one cell ahead of the
   write cursor, a lag of the full active length. *)
C14_ReadOneAheadOfWrite ==
    stage # "created" => dl.read_head = (dl.write_head + 1) % dl.n_samples

(* What the code does instead: writes and shrinking resizes keep the read
   cursor one cell ahead; a growing resize keeps both cursors where they
   are, so a read cursor that had wrapped to 0 stays behind the write
   cursor. *)
C14_ReadOneAheadUnlessGrown ==
    [][(stage' # "created" /\ ~(op' = "set_delay" /\ stage' = "resized"
                                  /\ dl'.n_samples > dl.n_samples)
        /\ (stage = "created"
             \/ dl.read_head = (dl.write_head + 1) % dl.n_samples))
       => dl'.read_head = (dl'.write_head + 1) % dl'.n_samples]_vars

============================================================================
